---- MODULE Spec2Model ----
(***************************************************************************)
(* A model of the chunk-processing pipeline of arnnvv/cutcrap:             *)
(*   - workers.ProcessChunks  (bounded worker pool, src/unnamed/part_005)  *)
(*   - chunker.ChunkTextBySpace (sliding window, src/unnamed/part_007)     *)
(* Strings are sequences of one-character strings.                         *)
(***************************************************************************)
EXTENDS Integers, Sequences, FiniteSets, TLC

\* ------------------------------------------------------------------ bounds
MaxChunks == 3        \* largest number of segments handed to the pool
MaxK == 2             \* largest cfg.MaxConcurrent explored
MaxWords == 6         \* largest number of words of a text given to the chunker
MaxChunkSize == 3     \* largest chunkSize explored
MaxOverlap == 3       \* largest overlap explored
MaxIter == 7          \* cap on the iterations of a window loop that never ends
MaxLines == 3         \* largest number of lines of an analysis text
MaxTLines == 3        \* largest number of lines of the chunks given to CombineTranscriptChunks
MaxTWords == 2        \* largest number of words of a text given to ProcessTranscript
MaxTChunkSize == 2    \* largest cfg.ChunkSize of a ProcessTranscript call
MaxResults == 3       \* largest number of results given to combineResults
MaxSentences == 3     \* largest number of sentences of a text given to ChunkText

VARIABLES
    \* ---- workers.ProcessChunks
    chunks,            \* the segments, indexed 0..N-1
    maxConcurrent,     \* cfg.MaxConcurrent
    ctxDone,           \* the request context has been cancelled
    dpc,               \* dispatcher goroutine: "check", "select", "wait", "closed"
    di,                \* dispatcher loop index i
    wg,                \* sync.WaitGroup counter
    semaphore,         \* number of tokens in the semaphore channel
    resultChanClosed,  \* close(resultChan) has run
    wpc,               \* worker goroutine of each segment
    processedContent,  \* worker local processedContent
    processErr,        \* worker local processErr # nil
    called,            \* history: api.ProcessTextWithMode was invoked for the segment
    reported,          \* history: number of reports the collector received per segment
    overtaken,         \* history: a report was received after one of a later segment
    cancelSeenAt,      \* history: first segment the dispatcher considered after the
                       \* cancellation (-1: none)
    results,           \* the position-indexed result slots
    processedCounter,
    errorCount,
    mpc,               \* ProcessChunks itself: "collect", "returned"
    finalResults,      \* the returned list
    panicked,          \* a goroutine panicked: the process is gone
    \* ---- chunker.ChunkTextBySpace
    srcWords,          \* the words the input text was written from
    content,           \* the input text, then the normalised text
    chunkSize,
    overlap,
    words,
    cpc,               \* "start", "loop", "done", "panic"
    ci,                \* loop variable i
    cchunks,           \* the chunks built so far
    cerr,              \* an error was returned
    \* ---- chunker.ChunkText
    srcSentences,      \* the sentences the input text was written from
    stext,             \* the input text
    sSize,             \* chunkSize
    sentences,         \* the result of splitIntoSentences
    schunks,           \* the returned chunks
    spc,               \* "start", "pack", "done"
    serr,              \* an error was returned
    \* ---- transcript.ParseSpeakerAnalysis
    pentries,          \* the lines the analysis text was written from
    analysis,          \* the raw analysis text
    plines,            \* strings.Split(analysis, "\n")
    pidx,              \* position of the loop over the lines
    foundListStart,
    mapping,           \* the role -> name map
    ppc,               \* "start", "loop", "done"
    \* ---- transcript.CombineTranscriptChunks
    tentries,          \* the lines the chunks were written from
    tchunks,           \* the chunks parameter
    tlines,            \* strings.Split(combined, "\n")
    tidx,              \* position of the loop over the lines
    currentSpeaker,
    currentSpeech,
    finalLines,
    finalOutput,
    tpc,               \* "start", "loop", "done"
    \* ---- workers.ProcessTranscript
    speakerRoleNameMap, \* the map handed to ProcessChunks and to every worker
    opc,               \* "start", "analyzed", "parse", "chunk", "pool", "combine", "returned"
    trText,            \* the text parameter
    cfg,               \* ChunkSize, ChunkOverlap, MaxConcurrent
    speakerAnalysisRaw,
    analysisFailed,    \* api.AnalyzeSpeakers returned an error
    trResult,          \* the returned string
    \* ---- main.combineResults
    docEntries,        \* the worker results the call was made with, as written
    docResults,        \* the results parameter
    docOutput,         \* the returned string
    docpc              \* "start", "done"

poolVars == <<chunks, maxConcurrent, ctxDone, dpc, di, wg, semaphore, resultChanClosed,
              wpc, processedContent, processErr, called, reported, overtaken, cancelSeenAt,
              results, processedCounter, errorCount, mpc, finalResults, panicked,
              speakerRoleNameMap>>
chunkerVars == <<srcWords, content, chunkSize, overlap, words, cpc, ci, cchunks, cerr>>
sentenceVars == <<srcSentences, stext, sSize, sentences, schunks, spc, serr>>
\* what neither the pool nor the window chunker touches
parseVars == <<pentries, analysis, plines, pidx, foundListStart, mapping, ppc>>
combineVars == <<tentries, tchunks, tlines, tidx, currentSpeaker, currentSpeech,
                 finalLines, finalOutput, tpc>>
orchVars == <<opc, trText, cfg, speakerAnalysisRaw, analysisFailed, trResult>>
docVars == <<docEntries, docResults, docOutput, docpc>>
auxVars == <<sentenceVars, parseVars, combineVars, orchVars, docVars>>
vars == <<poolVars, chunkerVars, auxVars>>

\* ------------------------------------------------------------- strings
Min(a, b) == IF a < b THEN a ELSE b

\* unicode.IsSpace on the characters the model uses
IsSpace(c) == c \in {" ", "\n", "\r", "\t"}

RECURSIVE TrimLeft(_)
TrimLeft(s) == IF s # <<>> /\ IsSpace(Head(s)) THEN TrimLeft(Tail(s)) ELSE s

RECURSIVE TrimRight(_)
TrimRight(s) ==
    IF s # <<>> /\ IsSpace(s[Len(s)]) THEN TrimRight(SubSeq(s, 1, Len(s) - 1)) ELSE s

\* strings.TrimSpace
TrimSpace(s) == TrimRight(TrimLeft(s))

\* strings.Fields: the maximal runs of non-space characters
RECURSIVE FieldsFrom(_, _, _)
FieldsFrom(s, cur, acc) ==
    IF s = <<>> THEN (IF cur = <<>> THEN acc ELSE Append(acc, cur))
    ELSE IF IsSpace(Head(s))
         THEN FieldsFrom(Tail(s), <<>>, IF cur = <<>> THEN acc ELSE Append(acc, cur))
         ELSE FieldsFrom(Tail(s), Append(cur, Head(s)), acc)

Fields(s) == FieldsFrom(s, <<>>, <<>>)

\* strings.Join
RECURSIVE Join(_, _)
Join(elems, sep) ==
    IF elems = <<>> THEN <<>>
    ELSE IF Len(elems) = 1 THEN elems[1]
    ELSE elems[1] \o sep \o Join(Tail(elems), sep)

\* strings.ReplaceAll(s, old, new), old non-empty: leftmost non-overlapping matches
RECURSIVE ReplaceAll(_, _, _)
ReplaceAll(s, old, new) ==
    IF Len(s) < Len(old) THEN s
    ELSE IF SubSeq(s, 1, Len(old)) = old
         THEN new \o ReplaceAll(SubSeq(s, Len(old) + 1, Len(s)), old, new)
         ELSE <<Head(s)>> \o ReplaceAll(Tail(s), old, new)

\* ------------------------------------------------ workers.ProcessChunks
Letters == <<"a", "b", "c", "d", "e", "f", "g", "h">>

\* the segments of a batch of n: segment i is the one-letter text Letters[i+1]
ChunksOf(n) == [i \in 0..(n - 1) |-> <<Letters[i + 1]>>]

N == Cardinality(DOMAIN chunks)
Idx == DOMAIN chunks

\* What api.ProcessTextWithMode can return for a text: an error, or a reply
\* that is blank, the condensed text, or that text inside white space.
ErrReply == [err |-> TRUE, text |-> <<>>]
OkReply(t) == [err |-> FALSE, text |-> t]
Replies(t) == {ErrReply, OkReply(<<" ">>), OkReply(t), OkReply(<<" ">> \o t \o <<"\n">>)}

PoolInit ==
    /\ \E n \in 0..MaxChunks : chunks = ChunksOf(n)
    /\ maxConcurrent \in 1..MaxK
    /\ ctxDone = FALSE
    /\ dpc = "check"
    /\ di = 0
    /\ wg = 0
    /\ semaphore = 0
    /\ resultChanClosed = FALSE
    /\ wpc = [i \in Idx |-> "idle"]
    /\ processedContent = [i \in Idx |-> <<>>]
    /\ processErr = [i \in Idx |-> FALSE]
    /\ called = [i \in Idx |-> FALSE]
    /\ reported = [i \in Idx |-> 0]
    /\ overtaken = FALSE
    /\ cancelSeenAt = -1
    /\ results = [i \in Idx |-> <<>>]
    /\ processedCounter = 0
    /\ errorCount = 0
    /\ mpc = "collect"
    /\ finalResults = <<>>
    /\ panicked = FALSE
    /\ speakerRoleNameMap = <<>>

\* the deadline of the request context passes (or the client goes away) while
\* ProcessChunks is running
Cancel ==
    /\ ~panicked
    /\ ~ctxDone
    /\ mpc # "returned"
    /\ ctxDone' = TRUE
    /\ UNCHANGED chunkerVars
    /\ UNCHANGED auxVars
    /\ UNCHANGED speakerRoleNameMap
    /\ UNCHANGED <<chunks, maxConcurrent, dpc, di, wg, semaphore, resultChanClosed,
                   wpc, processedContent, processErr, called, reported, overtaken, cancelSeenAt, results,
                   processedCounter, errorCount, mpc, finalResults, panicked>>

\* line 51: the dispatcher leaves the loop when the context is cancelled
BreakOnCancelNever == FALSE
BreakOnCancel == ctxDone

\* lines 50-55: loop head; ctx.Err() check; wg.Add(1). cancelSeenAt records
\* the first segment that is considered with the context already cancelled.
DispatchCheck ==
    /\ ~panicked
    /\ dpc = "check"
    /\ IF di >= N \/ BreakOnCancel
       THEN /\ dpc' = "wait"
            /\ wg' = wg
       ELSE /\ dpc' = "select"
            /\ wg' = wg + 1
    /\ cancelSeenAt' = IF di < N /\ ctxDone /\ cancelSeenAt = -1 THEN di ELSE cancelSeenAt
    /\ UNCHANGED chunkerVars
    /\ UNCHANGED auxVars
    /\ UNCHANGED speakerRoleNameMap
    /\ UNCHANGED <<chunks, maxConcurrent, ctxDone, di, semaphore, resultChanClosed,
                   wpc, processedContent, processErr, called, reported, overtaken, results,
                   processedCounter, errorCount, mpc, finalResults, panicked>>

\* line 57: the send on the semaphore channel can proceed
SlotFreeAlways == TRUE
SlotFree == semaphore < maxConcurrent

\* lines 56-57, 65, 105: the select takes a slot and the worker goroutine starts
DispatchAcquire ==
    /\ ~panicked
    /\ dpc = "select"
    /\ SlotFree
    /\ semaphore' = semaphore + 1
    /\ wpc' = [wpc EXCEPT ![di] = "start"]
    /\ di' = di + 1
    /\ dpc' = "check"
    /\ UNCHANGED chunkerVars
    /\ UNCHANGED auxVars
    /\ UNCHANGED speakerRoleNameMap
    /\ UNCHANGED <<chunks, maxConcurrent, ctxDone, wg, resultChanClosed,
                   processedContent, processErr, called, reported, overtaken, cancelSeenAt, results,
                   processedCounter, errorCount, mpc, finalResults, panicked>>

\* lines 58-61 and the deferred close of line 48: the select takes ctx.Done(),
\* the dispatcher returns without wg.Wait() and closes resultChan
DispatchCancelled ==
    /\ ~panicked
    /\ dpc = "select"
    /\ ctxDone
    /\ wg' = wg - 1
    /\ resultChanClosed' = TRUE
    /\ dpc' = "closed"
    /\ UNCHANGED chunkerVars
    /\ UNCHANGED auxVars
    /\ UNCHANGED speakerRoleNameMap
    /\ UNCHANGED <<chunks, maxConcurrent, ctxDone, di, semaphore,
                   wpc, processedContent, processErr, called, reported, overtaken, cancelSeenAt, results,
                   processedCounter, errorCount, mpc, finalResults, panicked>>

\* lines 107-110 and the deferred close of line 48
DispatchWait ==
    /\ ~panicked
    /\ dpc = "wait"
    /\ wg = 0
    /\ resultChanClosed' = TRUE
    /\ dpc' = "closed"
    /\ UNCHANGED chunkerVars
    /\ UNCHANGED auxVars
    /\ UNCHANGED speakerRoleNameMap
    /\ UNCHANGED <<chunks, maxConcurrent, ctxDone, di, wg, semaphore,
                   wpc, processedContent, processErr, called, reported, overtaken, cancelSeenAt, results,
                   processedCounter, errorCount, mpc, finalResults, panicked>>

\* lines 81-93: the worker checks the context, then calls the API
WorkerStart(i) ==
    /\ ~panicked
    /\ wpc[i] = "start"
    /\ IF ctxDone
       THEN /\ processErr' = [processErr EXCEPT ![i] = TRUE]
            /\ wpc' = [wpc EXCEPT ![i] = "sending"]
            /\ called' = called
       ELSE /\ processErr' = processErr
            /\ wpc' = [wpc EXCEPT ![i] = "calling"]
            /\ called' = [called EXCEPT ![i] = TRUE]
    /\ UNCHANGED chunkerVars
    /\ UNCHANGED auxVars
    /\ UNCHANGED speakerRoleNameMap
    /\ UNCHANGED <<chunks, maxConcurrent, ctxDone, dpc, di, wg, semaphore,
                   resultChanClosed, processedContent, reported, overtaken, cancelSeenAt, results,
                   processedCounter, errorCount, mpc, finalResults, panicked>>

\* part_003 lines 114-119: the call reads the map (len, range) and leaves
\* it as it is
MapAfterCallWrites(m) ==
    [r \in DOMAIN m \cup {<<"x">>} |-> <<"y">>]
MapAfterCall(m) == m

\* lines 95-101: the reply is discarded after an error and after a
\* cancellation
ReplyFailedOnErrorOnly(err, done) == err
ReplyFailed(err, done) == err \/ done

\* lines 93-104: the API call returns r; an error, or a context cancelled by
\* then, leaves an empty content and a non-nil error
WorkerReply(i, r) ==
    /\ ~panicked
    /\ wpc[i] = "calling"
    /\ IF ReplyFailed(r.err, ctxDone)
       THEN /\ processErr' = [processErr EXCEPT ![i] = TRUE]
            /\ processedContent' = [processedContent EXCEPT ![i] = <<>>]
       ELSE /\ processErr' = processErr
            /\ processedContent' = [processedContent EXCEPT ![i] = r.text]
    /\ wpc' = [wpc EXCEPT ![i] = "sending"]
    /\ UNCHANGED chunkerVars
    /\ UNCHANGED auxVars
    /\ speakerRoleNameMap' = MapAfterCall(speakerRoleNameMap)
    /\ UNCHANGED <<chunks, maxConcurrent, ctxDone, dpc, di, wg, semaphore,
                   resultChanClosed, called, reported, overtaken, cancelSeenAt, results,
                   processedCounter, errorCount, mpc, finalResults, panicked>>

\* line 121: the slot a report is written to
ResultSlotByArrival(index, counter) == counter - 1
ResultSlot(index, counter) == index

\* lines 72-76 with 115-126: the worker's send meets the collector's receive
\* on the unbuffered resultChan, and the collector handles the report
CollectorReceive(i) ==
    /\ ~panicked
    /\ mpc = "collect"
    /\ wpc[i] = "sending"
    /\ ~resultChanClosed
    /\ processedCounter' = processedCounter + 1
    /\ reported' = [reported EXCEPT ![i] = @ + 1]
    /\ overtaken' = (overtaken \/ \E j \in Idx : j > i /\ reported[j] > 0)
    /\ IF processErr[i]
       THEN /\ errorCount' = errorCount + 1
            /\ results' = results
       ELSE IF i >= 0 /\ i < N
            THEN /\ results' = [results EXCEPT
                                  ![ResultSlot(i, processedCounter')] = processedContent[i]]
                 /\ errorCount' = errorCount
            ELSE /\ errorCount' = errorCount + 1
                 /\ results' = results
    /\ wpc' = [wpc EXCEPT ![i] = "sent"]
    /\ UNCHANGED chunkerVars
    /\ UNCHANGED auxVars
    /\ UNCHANGED speakerRoleNameMap
    /\ UNCHANGED <<chunks, maxConcurrent, ctxDone, dpc, di, wg, semaphore,
                   resultChanClosed, processedContent, processErr, called,
                   cancelSeenAt, mpc, finalResults, panicked>>

\* lines 72-76: a send on the closed resultChan panics; nothing recovers it,
\* so the process ends
WorkerSendOnClosed(i) ==
    /\ ~panicked
    /\ wpc[i] = "sending"
    /\ resultChanClosed
    /\ panicked' = TRUE
    /\ wpc' = [wpc EXCEPT ![i] = "panic"]
    /\ UNCHANGED chunkerVars
    /\ UNCHANGED auxVars
    /\ UNCHANGED speakerRoleNameMap
    /\ UNCHANGED <<chunks, maxConcurrent, ctxDone, dpc, di, wg, semaphore,
                   resultChanClosed, processedContent, processErr, called, reported, overtaken, cancelSeenAt,
                   results, processedCounter, errorCount, mpc, finalResults>>

\* line 77: the receive from the semaphore frees one slot
AfterReleaseHeld(s) == s
AfterRelease(s) == s - 1

\* line 77: <-semaphore
WorkerRelease(i) ==
    /\ ~panicked
    /\ wpc[i] = "sent"
    /\ semaphore' = AfterRelease(semaphore)
    /\ wpc' = [wpc EXCEPT ![i] = "released"]
    /\ UNCHANGED chunkerVars
    /\ UNCHANGED auxVars
    /\ UNCHANGED speakerRoleNameMap
    /\ UNCHANGED <<chunks, maxConcurrent, ctxDone, dpc, di, wg,
                   resultChanClosed, processedContent, processErr, called, reported, overtaken, cancelSeenAt,
                   results, processedCounter, errorCount, mpc, finalResults, panicked>>

\* line 78: wg.Done()
WorkerDone(i) ==
    /\ ~panicked
    /\ wpc[i] = "released"
    /\ wg' = wg - 1
    /\ wpc' = [wpc EXCEPT ![i] = "done"]
    /\ UNCHANGED chunkerVars
    /\ UNCHANGED auxVars
    /\ UNCHANGED speakerRoleNameMap
    /\ UNCHANGED <<chunks, maxConcurrent, ctxDone, dpc, di, semaphore,
                   resultChanClosed, processedContent, processErr, called, reported, overtaken, cancelSeenAt,
                   results, processedCounter, errorCount, mpc, finalResults, panicked>>

\* lines 133-134: a slot is dropped when nothing is left after trimming
IsBlankOnlyEmpty(r) == r = <<>>
IsBlank(r) == TrimSpace(r) = <<>>

\* line 137: what is appended for a surviving slot
Kept(r) == TrimSpace(r)

\* lines 130-139: the filter over the result slots, in index order
RECURSIVE FilterFrom(_, _, _)
FilterFrom(res, i, n) ==
    IF i >= n THEN <<>>
    ELSE (IF IsBlank(res[i]) THEN <<>> ELSE <<Kept(res[i])>>) \o FilterFrom(res, i + 1, n)

FilterKeepAll(res) == [j \in 1..N |-> res[j - 1]]
FilterResults(res) == FilterFrom(res, 0, N)

\* lines 115, 127-148: the range over resultChan ends when it is closed; the
\* slots are filtered and the list is returned
MainReturn ==
    /\ ~panicked
    /\ mpc = "collect"
    /\ resultChanClosed
    /\ finalResults' = FilterResults(results)
    /\ mpc' = "returned"
    /\ UNCHANGED chunkerVars
    /\ UNCHANGED auxVars
    /\ UNCHANGED speakerRoleNameMap
    /\ UNCHANGED <<chunks, maxConcurrent, ctxDone, dpc, di, wg, semaphore,
                   resultChanClosed, wpc, processedContent, processErr, called,
                   reported, overtaken, cancelSeenAt, results, processedCounter, errorCount, panicked>>

Next ==
    \/ Cancel
    \/ DispatchCheck
    \/ DispatchAcquire
    \/ DispatchCancelled
    \/ DispatchWait
    \/ \E i \in Idx : WorkerStart(i)
    \/ \E i \in Idx : \E r \in Replies(chunks[i]) : WorkerReply(i, r)
    \/ \E i \in Idx : CollectorReceive(i)
    \/ \E i \in Idx : WorkerSendOnClosed(i)
    \/ \E i \in Idx : WorkerRelease(i)
    \/ \E i \in Idx : WorkerDone(i)
    \/ MainReturn

\* ------------------------------------------- chunker.ChunkTextBySpace
\* The texts given to the chunker: the first n letters as one-letter words,
\* written with one of the separators between them and optional white space
\* around them.
WordsOf(n) == [p \in 1..n |-> <<Letters[p]>>]
Separators == {<<" ">>, <<"\n">>, <<"\r", "\n">>, <<" ", " ">>}
Margins == {<<>>, <<" ">>}
TextOf(ws, sep, lead, trail) == lead \o Join(ws, sep) \o trail

ChunkerInit ==
    /\ \E n \in 0..MaxWords : srcWords = WordsOf(n)
    /\ \E sep \in Separators, lead \in Margins, trail \in Margins :
          content = TextOf(srcWords, sep, lead, trail)
    /\ chunkSize \in -1..MaxChunkSize
    /\ overlap \in 0..MaxOverlap
    /\ words = <<>>
    /\ cpc = "start"
    /\ ci = 0
    /\ cchunks = <<>>
    /\ cerr = FALSE

\* lines 129-132: line breaks to spaces, runs of white space to one space
NormalizeSpace(t) ==
    Join(Fields(ReplaceAll(ReplaceAll(t, <<"\r", "\n">>, <<" ">>), <<"\n">>, <<" ">>)),
         <<" ">>)

\* lines 129-142: normalise, split into words, return a short text whole
ChunkStart ==
    /\ cpc = "start"
    /\ content' = NormalizeSpace(content)
    /\ words' = Fields(content')
    /\ IF Len(words') <= chunkSize
       THEN /\ cchunks' = <<content'>>
            /\ cpc' = "done"
       ELSE /\ cchunks' = <<>>
            /\ cpc' = "loop"
    /\ UNCHANGED <<srcWords, chunkSize, overlap, ci, cerr>>
    /\ UNCHANGED poolVars
    /\ UNCHANGED auxVars

\* line 144: the loop advances by chunkSize - overlap
WindowStepNoOverlap(k, o) == k
WindowStep(k, o) == k - o

\* lines 145-148: the end of the window, clamped to the number of words
WindowEndUnclamped(i, k, n) == i + k
WindowEnd(i, k, n) == IF i + k > n THEN n ELSE i + k

\* line 150: words[i:end] panics unless 0 <= i <= end <= len(words)
SliceOk(i, end, n) == 0 <= i /\ i <= end /\ end <= n

\* lines 157-159: the loop is left once a window ends at the last word
ReachedEndNever(end, n) == FALSE
ReachedEnd(end, n) == end = n

\* lines 144-160: one iteration of the window loop (MaxIter caps a loop that
\* would append chunks for ever)
ChunkLoop ==
    /\ cpc = "loop"
    /\ Len(cchunks) < MaxIter
    /\ LET n == Len(words)
           end == WindowEnd(ci, chunkSize, n)
       IN IF ~(ci < n)
          THEN /\ cpc' = "done"
               /\ UNCHANGED <<ci, cchunks>>
          ELSE IF ~SliceOk(ci, end, n)
          THEN /\ cpc' = "panic"
               /\ UNCHANGED <<ci, cchunks>>
          ELSE /\ cchunks' = Append(cchunks, Join(SubSeq(words, ci + 1, end), <<" ">>))
               /\ IF ReachedEnd(end, n)
                  THEN /\ cpc' = "done"
                       /\ ci' = ci
                  ELSE /\ cpc' = "loop"
                       /\ ci' = ci + WindowStep(chunkSize, overlap)
    /\ UNCHANGED <<srcWords, content, chunkSize, overlap, words, cerr>>
    /\ UNCHANGED poolVars
    /\ UNCHANGED auxVars

ChunkerNext ==
    \/ ChunkStart
    \/ ChunkLoop

\* no batch is running beside the chunker
PoolIdle ==
    /\ chunks = ChunksOf(0)
    /\ maxConcurrent = 1
    /\ ctxDone = FALSE
    /\ dpc = "closed"
    /\ di = 0
    /\ wg = 0
    /\ semaphore = 0
    /\ resultChanClosed = TRUE
    /\ wpc = [i \in Idx |-> "idle"]
    /\ processedContent = [i \in Idx |-> <<>>]
    /\ processErr = [i \in Idx |-> FALSE]
    /\ called = [i \in Idx |-> FALSE]
    /\ reported = [i \in Idx |-> 0]
    /\ overtaken = FALSE
    /\ cancelSeenAt = -1
    /\ results = [i \in Idx |-> <<>>]
    /\ processedCounter = 0
    /\ errorCount = 0
    /\ mpc = "returned"
    /\ finalResults = <<>>
    /\ panicked = FALSE
    /\ speakerRoleNameMap = <<>>

\* ChunkText is not running
SentenceIdle ==
    /\ srcSentences = <<>>
    /\ stext = <<>>
    /\ sSize = 1
    /\ sentences = <<>>
    /\ schunks = <<>>
    /\ spc = "done"
    /\ serr = FALSE

\* the chunker does not run beside the pool
ChunkerIdle ==
    /\ srcWords = <<>>
    /\ content = <<>>
    /\ chunkSize = 1
    /\ overlap = 0
    /\ words = <<>>
    /\ cpc = "done"
    /\ ci = 0
    /\ cchunks = <<>>
    /\ cerr = FALSE

\* ------------------------------------------------- chunker.ChunkText
\* The texts given to ChunkText: up to MaxSentences sentences, each one of
\* SentencePool, written with one of the separators between them.
SentencePool == {<<"a", ".">>, <<"b", " ", "c", "!">>,
                 <<"M", "r", ".", " ", "d", " ", "e", "?">>, <<"f", " ", "e", "t", "c", ".">>}

SeqsUpTo(S, n) == UNION {[1..m -> S] : m \in 0..n}

ChunkTextInit ==
    /\ srcSentences \in SeqsUpTo(SentencePool, MaxSentences)
    /\ \E sep \in Separators : stext = Join(srcSentences, sep)
    /\ sSize \in 0..MaxChunkSize
    /\ sentences = <<>>
    /\ schunks = <<>>
    /\ spc = "start"
    /\ serr = FALSE

\* line 235-241: the abbreviations, in the order they are replaced
Abbreviations ==
    <<<<"M", "r", ".">>, <<"M", "r", "s", ".">>, <<"M", "s", ".">>,
      <<"D", "r", ".">>, <<"P", "r", "o", "f", ".">>, <<"I", "n", "c", ".">>,
      <<"L", "t", "d", ".">>, <<"C", "o", ".">>, <<"C", "o", "r", "p", ".">>,
      <<"i", ".", "e", ".">>, <<"e", ".", "g", ".">>, <<"e", "t", "c", ".">>,
      <<"v", "s", ".">>, <<"a", ".", "m", ".">>, <<"p", ".", "m", ".">>,
      <<"U", ".", "S", ".">>, <<"U", ".", "K", ".">>, <<"E", ".", "U", ".">>>>

\* line 245: the character that stands for a period inside an abbreviation
Sentinel == "MIDDLE DOT"

\* line 245: strings.ReplaceAll(abbr, ".", sentinel)
Placeholder(abbr) == [p \in 1..Len(abbr) |-> IF abbr[p] = "." THEN Sentinel ELSE abbr[p]]

\* lines 243-249: every abbreviation replaced by its placeholder, one after the other
RECURSIVE ReplaceFrom(_, _)
ReplaceFrom(text, k) ==
    IF k > Len(Abbreviations) THEN text
    ELSE ReplaceFrom(ReplaceAll(text, Abbreviations[k], Placeholder(Abbreviations[k])), k + 1)

replaceAbbreviations(text) == ReplaceFrom(text, 1)

\* lines 177-178: a sentence ends at . ! ? followed by white space or the end
IsBoundary(text, i) ==
    /\ text[i] \in {".", "!", "?"}
    /\ (i = Len(text) \/ IsSpace(text[i + 1]))

\* lines 180-183, 189-192: a sentence is kept trimmed, unless it has no word
KeepSentence(acc, cur) ==
    IF Len(Fields(TrimSpace(cur))) > 0 THEN Append(acc, TrimSpace(cur)) ELSE acc

\* lines 174-193: the scan over the text
RECURSIVE ScanFrom(_, _, _, _)
ScanFrom(text, i, cur, acc) ==
    IF i > Len(text) THEN (IF Len(cur) > 0 THEN KeepSentence(acc, cur) ELSE acc)
    ELSE IF IsBoundary(text, i)
         THEN ScanFrom(text, i + 1, <<>>, KeepSentence(acc, Append(cur, text[i])))
         ELSE ScanFrom(text, i + 1, Append(cur, text[i]), acc)

\* lines 166-197
splitIntoSentences(text) == ScanFrom(replaceAbbreviations(text), 1, <<>>, <<>>)

\* lines 116-122: line breaks to spaces, then the split into sentences
ChunkTextSplit ==
    /\ spc = "start"
    /\ sentences' = splitIntoSentences(
                       ReplaceAll(ReplaceAll(stext, <<"\r", "\n">>, <<" ">>), <<"\n">>, <<" ">>))
    /\ spc' = "pack"
    /\ UNCHANGED <<srcSentences, stext, sSize, schunks, serr>>
    /\ UNCHANGED <<poolVars, chunkerVars, parseVars, combineVars, orchVars, docVars>>

WordCount(t) == Len(Fields(t))

\* line 207: the current chunk is closed before the sentence is added
ClosesChunkLate(count, sentenceWords, target) ==
    count > 0 /\ count + sentenceWords > target + 1
ClosesChunk(count, sentenceWords, target) ==
    count > 0 /\ count + sentenceWords > target

\* lines 204-222: the loop over the sentences; cur is currentChunk
RECURSIVE PackFrom(_, _, _, _, _, _)
PackFrom(sents, i, cur, count, target, acc) ==
    IF i > Len(sents)
    THEN (IF Len(cur) > 0 THEN Append(acc, TrimSpace(cur)) ELSE acc)
    ELSE LET w == WordCount(sents[i])
         IN IF ClosesChunk(count, w, target)
            THEN PackFrom(sents, i + 1, sents[i] \o <<" ">>, w, target,
                          Append(acc, TrimSpace(cur)))
            ELSE PackFrom(sents, i + 1, cur \o sents[i] \o <<" ">>, count + w, target, acc)

\* lines 199-232
createChunksFromSentences(sents, target) == PackFrom(sents, 1, <<>>, 0, target, <<>>)

\* line 122: the chunks are returned with a nil error
ChunkTextPack ==
    /\ spc = "pack"
    /\ schunks' = createChunksFromSentences(sentences, sSize)
    /\ serr' = FALSE
    /\ spc' = "done"
    /\ UNCHANGED <<srcSentences, stext, sSize, sentences>>
    /\ UNCHANGED <<poolVars, chunkerVars, parseVars, combineVars, orchVars, docVars>>

ChunkTextNext ==
    \/ ChunkTextSplit
    \/ ChunkTextPack

\* ------------------------------------- transcript.ParseSpeakerAnalysis
\* The lines an analysis text is written from.  list says that the line is
\* written as a list line "- role: name[, ...]"; role and name are what it
\* was written with.
EntryPool ==
    {[line |-> <<"T", "o", "t", "a", "l", " ", "S", "p", "e", "a", "k", "e", "r", "s", ":", " ", "2">>,
      list |-> FALSE, role |-> <<>>, name |-> <<>>],
     [line |-> <<"-", " ", "H", "o", "s", "t", ":", " ", "A", "l", "e", "x", ",", " ", "l", "e", "a", "d", "s">>,
      list |-> TRUE, role |-> <<"H", "o", "s", "t">>, name |-> <<"A", "l", "e", "x">>],
     [line |-> <<"-", " ", "*", "*", "H", "o", "s", "t", "*", "*", ":", " ", "*", "*", "R", "o", "b", "i", "n", "*", "*">>,
      list |-> TRUE, role |-> <<"H", "o", "s", "t">>, name |-> <<"R", "o", "b", "i", "n">>],
     [line |-> <<"-", " ", "G", "u", "e", "s", "t", " ", "1", ":", " ", "S", "a", "m">>,
      list |-> TRUE, role |-> <<"G", "u", "e", "s", "t", " ", "1">>, name |-> <<"S", "a", "m">>],
     [line |-> <<" ", " ", "-", " ", "G", "u", "e", "s", "t", " ", "1", ":", " ", "L", "e", "e", " ", "B", " ", ",", " ", "x">>,
      list |-> TRUE, role |-> <<"G", "u", "e", "s", "t", " ", "1">>, name |-> <<"L", "e", "e", " ", "B">>],
     [line |-> <<"-", " ", "T", "o", "t", "a", "l", " ", "S", "p", "e", "a", "k", "e", "r", "s", ":", " ", "2">>,
      list |-> TRUE, role |-> <<"T", "o", "t", "a", "l", " ", "S", "p", "e", "a", "k", "e", "r", "s">>, name |-> <<"2">>],
     [line |-> <<>>,
      list |-> FALSE, role |-> <<>>, name |-> <<>>],
     [line |-> <<"-", " ", "H", "o", "s", "t", ":">>,
      list |-> TRUE, role |-> <<"H", "o", "s", "t">>, name |-> <<>>],
     [line |-> <<"-", " ", ":", " ", "B", "o", "b">>,
      list |-> TRUE, role |-> <<>>, name |-> <<"B", "o", "b">>],
     [line |-> <<"G", "u", "e", "s", "t", " ", "1", ":", " ", "Z", "e", "d">>,
      list |-> FALSE, role |-> <<>>, name |-> <<>>]}

LineBreaks == {<<"\n">>, <<"\r", "\n">>}

\* ParseSpeakerAnalysis is not running
ParseIdle ==
    /\ pentries = <<>>
    /\ analysis = <<>>
    /\ plines = <<>>
    /\ pidx = 1
    /\ foundListStart = FALSE
    /\ mapping = <<>>
    /\ ppc = "done"

ParseInit ==
    /\ pentries \in SeqsUpTo(EntryPool, MaxLines)
    /\ \E br \in LineBreaks :
          analysis = Join([i \in 1..Len(pentries) |-> pentries[i].line], br)
    /\ plines = <<>>
    /\ pidx = 1
    /\ foundListStart = FALSE
    /\ mapping = <<>>
    /\ ppc = "start"

\* strings.Split(t, sep) for a separator of one character
RECURSIVE SplitFrom(_, _, _, _, _)
SplitFrom(t, sep, i, cur, acc) ==
    IF i > Len(t) THEN Append(acc, cur)
    ELSE IF t[i] = sep THEN SplitFrom(t, sep, i + 1, <<>>, Append(acc, cur))
    ELSE SplitFrom(t, sep, i + 1, Append(cur, t[i]), acc)

Split(t, sep) == SplitFrom(t, sep, 1, <<>>, <<>>)

\* the number of leading characters of t that are in S
RECURSIVE Lead(_, _)
Lead(t, S) == IF Len(t) > 0 /\ t[1] \in S THEN 1 + Lead(Tail(t), S) ELSE 0

\* the number of trailing characters of t that are in S
RECURSIVE Trail(_, _)
Trail(t, S) ==
    IF Len(t) > 0 /\ t[Len(t)] \in S THEN 1 + Trail(SubSeq(t, 1, Len(t) - 1), S) ELSE 0

Drop(t, k) == SubSeq(t, k + 1, Len(t))

\* strings.Trim(t, cutset)
Trim(t, S) == LET a == Drop(t, Lead(t, S)) IN SubSeq(a, 1, Len(a) - Trail(a, S))

\* \s and \* of the pattern
ReSpace == {" ", "\t", "\n", "\r"}
ReStar == {"*"}

\* what may follow the role group:  \**\s*  and then the colon
RoleTailOk(t) ==
    LET a == Drop(t, Lead(t, ReStar)) IN Lead(a, ReSpace) = Len(a)

\* what may follow the name group:  \**\s*(?:[,\n].*)?$
NameTailOk(t) ==
    LET a == Drop(t, Lead(t, ReStar))
        b == Drop(a, Lead(a, ReSpace))
    IN Len(b) = 0 \/ (b[1] \in {",", "\n"} /\ \A p \in 2..Len(b) : b[p] # "\n")

\* the characters of the role group [^:] and of the name group [^,\n*]
GroupChar(kind, c) ==
    IF kind = "role" THEN c # ":" ELSE c \notin {",", "\n", "*"}

\* the tail after a group of the kind
TailOk(kind, t) == IF kind = "role" THEN RoleTailOk(t) ELSE NameTailOk(t)

\* (group+?)tail : the length of the shortest group at the head of t that
\* the tail can follow, or 0
RECURSIVE LazyFrom(_, _, _)
LazyFrom(kind, t, g) ==
    IF g > Len(t) \/ ~GroupChar(kind, t[g]) THEN 0
    ELSE IF TailOk(kind, Drop(t, g)) THEN g
    ELSE LazyFrom(kind, t, g + 1)

\* \s*\**(group+?)tail : the matcher tries the longest white space first,
\* with it the longest run of stars, with them the shortest group; w and s
\* are the lengths of white space and stars still to try
RECURSIVE GroupFrom(_, _, _, _)
GroupFrom(kind, t, w, s) ==
    IF s < 0
    THEN IF w = 0 THEN <<>>
         ELSE GroupFrom(kind, t, w - 1, Lead(Drop(t, w - 1), ReStar))
    ELSE LET g == LazyFrom(kind, Drop(t, w + s), 1)
         IN IF g > 0 THEN SubSeq(t, w + s + 1, w + s + g)
            ELSE GroupFrom(kind, t, w, s - 1)

\* the group of the match, or the empty string when t does not match
Group(kind, t) ==
    LET w == Lead(t, ReSpace) IN GroupFrom(kind, t, w, Lead(Drop(t, w), ReStar))

\* the position of the first c in t, or 0
RECURSIVE IndexFrom(_, _, _)
IndexFrom(t, c, i) ==
    IF i > Len(t) THEN 0 ELSE IF t[i] = c THEN i ELSE IndexFrom(t, c, i + 1)

Index(t, c) == IndexFrom(t, c, 1)

NoMatch == [ok |-> FALSE, role |-> <<>>, name |-> <<>>]

\* line 22, 37: pattern.FindStringSubmatch on a trimmed line.  The role group
\* holds no colon, so the colon of the pattern is the first one of the line.
FindStringSubmatch(line) ==
    IF Len(line) = 0 \/ Lead(line, ReSpace) = Len(line) THEN NoMatch
    ELSE LET l == Drop(line, Lead(line, ReSpace))
         IN IF l[1] # "-" \/ Index(l, ":") = 0 THEN NoMatch
            ELSE LET before == SubSeq(l, 2, Index(l, ":") - 1)
                     after == Drop(l, Index(l, ":"))
                     role == Group("role", before)
                     name == Group("name", after)
                 IN IF role = <<>> \/ name = <<>> THEN NoMatch
                    ELSE [ok |-> TRUE, role |-> role, name |-> name]

TotalSpeakers == <<"T", "o", "t", "a", "l", " ", "S", "p", "e", "a", "k", "e", "r", "s">>

\* lines 15-21: the empty text gives the empty map at once
ParseStart ==
    /\ ppc = "start"
    /\ IF analysis = <<>>
       THEN ppc' = "done" /\ UNCHANGED plines
       ELSE ppc' = "loop" /\ plines' = Split(analysis, "\n")
    /\ UNCHANGED <<pentries, analysis, pidx, foundListStart, mapping>>
    /\ UNCHANGED <<poolVars, chunkerVars, sentenceVars, combineVars, orchVars, docVars>>

\* line 43: the role already has a name
ExistsNever(m, role) == FALSE
Exists(m, role) == role \in DOMAIN m

\* lines 39-49: the map after a matched line
WithMatch(m, match) ==
    LET role == Trim(TrimSpace(match.role), {"*", " "})
        name == Trim(TrimSpace(match.name), {"*", " "})
    IN IF role # <<>> /\ name # <<>> /\ role # TotalSpeakers /\ ~Exists(m, role)
       THEN [r \in DOMAIN m \cup {role} |-> IF r = role THEN name ELSE m[r]]
       ELSE m

\* lines 26-54: one turn of the loop over the lines
ParseLine ==
    /\ ppc = "loop"
    /\ pidx <= Len(plines)
    /\ LET trimmedLine == TrimSpace(plines[pidx])
           found == foundListStart \/ (Len(trimmedLine) > 0 /\ trimmedLine[1] = "-")
           match == FindStringSubmatch(trimmedLine)
       IN /\ foundListStart' = found
          /\ mapping' = IF found /\ match.ok THEN WithMatch(mapping, match) ELSE mapping
    /\ pidx' = pidx + 1
    /\ UNCHANGED <<pentries, analysis, plines, ppc>>
    /\ UNCHANGED <<poolVars, chunkerVars, sentenceVars, combineVars, orchVars, docVars>>

\* line 56
ParseReturn ==
    /\ ppc = "loop"
    /\ pidx > Len(plines)
    /\ ppc' = "done"
    /\ UNCHANGED <<pentries, analysis, plines, pidx, foundListStart, mapping>>
    /\ UNCHANGED <<poolVars, chunkerVars, sentenceVars, combineVars, orchVars, docVars>>

ParseNext ==
    \/ ParseStart
    \/ ParseLine
    \/ ParseReturn

\* ---------------------------------- transcript.CombineTranscriptChunks
\* The lines the chunks are written from: lines "speaker: speech" (also with
\* no speech, also with white space around the parts) and a line with no
\* speaker.
TLinePool ==
    {[line |-> <<"H", "o", "s", "t", ":", " ", "H", "i", " ", "t", "h", "e", "r", "e", ".">>,
      kind |-> "speaker", speaker |-> <<"H", "o", "s", "t">>, speech |-> <<"H", "i", " ", "t", "h", "e", "r", "e", ".">>],
     [line |-> <<"H", "o", "s", "t", ":", " ", "H", "o", "w", " ", "a", "r", "e", " ", "y", "o", "u", "?">>,
      kind |-> "speaker", speaker |-> <<"H", "o", "s", "t">>, speech |-> <<"H", "o", "w", " ", "a", "r", "e", " ", "y", "o", "u", "?">>],
     [line |-> <<"G", "u", "e", "s", "t", ":", " ", "G", "o", "o", "d", ".">>,
      kind |-> "speaker", speaker |-> <<"G", "u", "e", "s", "t">>, speech |-> <<"G", "o", "o", "d", ".">>],
     [line |-> <<"u", "m", " ", "o", "k">>,
      kind |-> "orphan", speaker |-> <<>>, speech |-> <<>>],
     [line |-> <<"G", "u", "e", "s", "t", ":">>,
      kind |-> "speaker", speaker |-> <<"G", "u", "e", "s", "t">>, speech |-> <<>>],
     [line |-> <<" ", "G", "u", "e", "s", "t", " ", ":", " ", " ", "S", "o", "?", " ">>,
      kind |-> "speaker", speaker |-> <<"G", "u", "e", "s", "t">>, speech |-> <<"S", "o", "?">>]}

\* how the lines of one chunk are separated
TLineBreaks == {<<"\n">>, <<"\r", "\n">>, <<"\n", "\n">>}

\* the chunks: the lines cut after the positions in cuts, each chunk's lines
\* joined with br
RECURSIVE ChunksFrom(_, _, _, _, _, _)
ChunksFrom(lines, cuts, br, i, cur, acc) ==
    IF i > Len(lines) THEN acc
    ELSE IF i \in cuts \/ i = Len(lines)
         THEN ChunksFrom(lines, cuts, br, i + 1, <<>>,
                         Append(acc, Join(Append(cur, lines[i]), br)))
         ELSE ChunksFrom(lines, cuts, br, i + 1, Append(cur, lines[i]), acc)

\* CombineTranscriptChunks is not running
CombineIdle ==
    /\ tentries = <<>>
    /\ tchunks = <<>>
    /\ tlines = <<>>
    /\ tidx = 1
    /\ currentSpeaker = <<>>
    /\ currentSpeech = <<>>
    /\ finalLines = <<>>
    /\ finalOutput = <<>>
    /\ tpc = "done"

CombineInit ==
    /\ tentries \in SeqsUpTo(TLinePool, MaxTLines)
    /\ \E cuts \in SUBSET (1..(Len(tentries) - 1)) : \E br \in TLineBreaks :
          tchunks = ChunksFrom([i \in 1..Len(tentries) |-> tentries[i].line],
                               cuts, br, 1, <<>>, <<>>)
    /\ tlines = <<>>
    /\ tidx = 1
    /\ currentSpeaker = <<>>
    /\ currentSpeech = <<>>
    /\ finalLines = <<>>
    /\ finalOutput = <<>>
    /\ tpc = "start"

\* lines 60-63
FormatTranscript(text) == TrimSpace(ReplaceAll(text, <<"\r", "\n">>, <<"\n">>))

\* line 80: what is written after the content of a chunk
ChunkEndNone == <<>>
ChunkEnd == <<"\n">>

\* lines 73-83: every chunk that is not blank, followed by a line break
RECURSIVE BuildFrom(_, _)
BuildFrom(cs, i) ==
    IF i > Len(cs) THEN <<>>
    ELSE LET formattedChunk == FormatTranscript(cs[i])
         IN (IF formattedChunk # <<>> THEN formattedChunk \o ChunkEnd ELSE <<>>)
            \o BuildFrom(cs, i + 1)

\* line 87: \n{2,} replaced by \n
RECURSIVE CollapseNewlines(_)
CollapseNewlines(t) ==
    IF Len(t) = 0 THEN <<>>
    ELSE IF Len(t) >= 2 /\ t[1] = "\n" /\ t[2] = "\n" THEN CollapseNewlines(Tail(t))
    ELSE <<t[1]>> \o CollapseNewlines(Tail(t))

\* lines 84-88
Combined(cs) ==
    TrimSpace(CollapseNewlines(ReplaceAll(BuildFrom(cs, 1), <<"\r", "\n">>, <<"\n">>)))

\* lines 84-96
CombineStart ==
    /\ tpc = "start"
    /\ tlines' = Split(Combined(tchunks), "\n")
    /\ tpc' = "loop"
    /\ UNCHANGED <<tentries, tchunks, tidx, currentSpeaker, currentSpeech,
                   finalLines, finalOutput>>
    /\ UNCHANGED <<poolVars, chunkerVars, sentenceVars, parseVars, orchVars, docVars>>

\* line 102: fmt.Sprintf("**%s**: %s", currentSpeaker, strings.TrimSpace(speech))
FormattedBlock(speaker, speech) ==
    <<"*", "*">> \o speaker \o <<"*", "*", ":", " ">> \o TrimSpace(speech)

\* lines 99-106: flushSpeakerBlock, finalLines after it
Flushed(blocks, speaker, speech) ==
    IF speaker # <<>> /\ Len(speech) > 0
    THEN Append(blocks, FormattedBlock(speaker, speech))
    ELSE blocks

\* lines 95, 114-115: ^([^:]+):\s*(.*)$ on a trimmed line, which holds no line break
IsSpeakerLine(line) == Index(line, ":") >= 2

\* line 124: the speaker of the line is the current one
SameSpeakerNever(speaker, current) == FALSE
SameSpeaker(speaker, current) == speaker = current

\* lines 126-129: what is written between two merged utterances
MergeSepNone == <<>>
MergeSep == <<" ">>

\* lines 138-152: the speech buffer after a line without a speaker
OrphanAppended(speaker, speech, line) ==
    IF speaker # <<>> THEN speech \o <<" ">> \o line ELSE speech
OrphanDropped(speaker, speech, line) == speech

\* lines 118-120: a speaker line with no speech is skipped
SkipsEmptySpeechNever(speechPart) == FALSE
SkipsEmptySpeech(speechPart) == speechPart = <<>>

\* lines 108-154: one turn of the loop over the lines
CombineLine ==
    /\ tpc = "loop"
    /\ tidx <= Len(tlines)
    /\ LET trimmedLine == TrimSpace(tlines[tidx])
           colon == Index(trimmedLine, ":")
           speaker == TrimSpace(SubSeq(trimmedLine, 1, colon - 1))
           speechPart == TrimSpace(Drop(trimmedLine, colon))
       IN IF trimmedLine = <<>>
          THEN UNCHANGED <<currentSpeaker, currentSpeech, finalLines>>
          ELSE IF ~IsSpeakerLine(trimmedLine)
          THEN /\ currentSpeech' = OrphanDropped(currentSpeaker, currentSpeech, trimmedLine)
               /\ UNCHANGED <<currentSpeaker, finalLines>>
          ELSE IF SkipsEmptySpeech(speechPart)
          THEN UNCHANGED <<currentSpeaker, currentSpeech, finalLines>>
          ELSE IF SameSpeaker(speaker, currentSpeaker)
          THEN /\ currentSpeech' = (IF Len(currentSpeech) > 0
                                    THEN currentSpeech \o MergeSep ELSE currentSpeech)
                                   \o speechPart
               /\ UNCHANGED <<currentSpeaker, finalLines>>
          ELSE /\ finalLines' = Flushed(finalLines, currentSpeaker, currentSpeech)
               /\ currentSpeaker' = speaker
               /\ currentSpeech' = (IF currentSpeaker # <<>> /\ Len(currentSpeech) > 0
                                    THEN <<>> ELSE currentSpeech) \o speechPart
    /\ tidx' = tidx + 1
    /\ UNCHANGED <<tentries, tchunks, tlines, finalOutput, tpc>>
    /\ UNCHANGED <<poolVars, chunkerVars, sentenceVars, parseVars, orchVars, docVars>>

\* lines 156-162: the last flush and the join
CombineReturn ==
    /\ tpc = "loop"
    /\ tidx > Len(tlines)
    /\ finalLines' = Flushed(finalLines, currentSpeaker, currentSpeech)
    /\ currentSpeech' = IF currentSpeaker # <<>> /\ Len(currentSpeech) > 0
                        THEN <<>> ELSE currentSpeech
    /\ finalOutput' = Join(finalLines', <<"\n", "\n">>)
    /\ tpc' = "done"
    /\ UNCHANGED <<tentries, tchunks, tlines, tidx, currentSpeaker>>
    /\ UNCHANGED <<poolVars, chunkerVars, sentenceVars, parseVars, orchVars, docVars>>

\* lines 90-160: the loop over the lines and the last flush, as a function of
\* the lines
RECURSIVE MergeFrom(_, _, _, _, _)
MergeFrom(ls, i, speaker, speech, blocks) ==
    IF i > Len(ls)
    THEN Join(Flushed(blocks, speaker, speech), <<"\n", "\n">>)
    ELSE LET trimmedLine == TrimSpace(ls[i])
             colon == Index(trimmedLine, ":")
             lineSpeaker == TrimSpace(SubSeq(trimmedLine, 1, colon - 1))
             speechPart == TrimSpace(Drop(trimmedLine, colon))
         IN IF trimmedLine = <<>>
            THEN MergeFrom(ls, i + 1, speaker, speech, blocks)
            ELSE IF ~IsSpeakerLine(trimmedLine)
            THEN MergeFrom(ls, i + 1, speaker,
                           OrphanDropped(speaker, speech, trimmedLine), blocks)
            ELSE IF SkipsEmptySpeech(speechPart)
            THEN MergeFrom(ls, i + 1, speaker, speech, blocks)
            ELSE IF SameSpeaker(lineSpeaker, speaker)
            THEN MergeFrom(ls, i + 1, speaker,
                           (IF Len(speech) > 0 THEN speech \o MergeSep ELSE speech)
                           \o speechPart, blocks)
            ELSE MergeFrom(ls, i + 1, lineSpeaker,
                           (IF speaker # <<>> /\ Len(speech) > 0 THEN <<>> ELSE speech)
                           \o speechPart,
                           Flushed(blocks, speaker, speech))

\* lines 66-162: the string CombineTranscriptChunks returns for the chunks cs
CombineTranscriptChunks(cs) ==
    MergeFrom(Split(Combined(cs), "\n"), 1, <<>>, <<>>, <<>>)

CombineNext ==
    \/ CombineStart
    \/ CombineLine
    \/ CombineReturn

\* ------------------------------------------ workers.ProcessTranscript
\* ProcessTranscript calls AnalyzeSpeakers, ParseSpeakerAnalysis,
\* ChunkTextBySpace, ProcessChunks and CombineTranscriptChunks in turn; each of
\* them runs as modelled above.

\* part_003 lines 38-101: what api.AnalyzeSpeakers returns
AnalysisReplies ==
    {[err |-> TRUE, text |-> <<>>],
     [err |-> FALSE, text |-> <<>>],
     [err |-> FALSE,
      text |-> <<"-", " ", "H", "o", "s", "t", ":", " ", "A", "l", "e", "x", ",", " ", "l", "e", "a", "d", "s", "\n", "-", " ", "*", "*", "H", "o", "s", "t", "*", "*", ":", " ", "*", "*", "R", "o", "b", "i", "n", "*", "*">>]}

\* the configurations: a chunk size, an overlap below it, a concurrency limit
Configs ==
    {c \in [ChunkSize : 1..MaxTChunkSize, ChunkOverlap : 0..(MaxTChunkSize - 1),
            MaxConcurrent : 1..MaxK] : c.ChunkOverlap < c.ChunkSize}

\* ProcessTranscript is not running
OrchIdle ==
    /\ opc = "returned"
    /\ trText = <<>>
    /\ cfg = [ChunkSize |-> 1, ChunkOverlap |-> 0, MaxConcurrent |-> 1]
    /\ speakerAnalysisRaw = <<>>
    /\ analysisFailed = FALSE
    /\ trResult = <<>>

OrchInit ==
    /\ opc = "start"
    /\ \E n \in 0..MaxTWords : trText = Join(WordsOf(n), <<" ">>)
    /\ cfg \in Configs
    /\ speakerAnalysisRaw = <<>>
    /\ analysisFailed = FALSE
    /\ trResult = <<>>

\* the request context is cancelled while ProcessChunks is not running
TrCancel ==
    /\ ~panicked
    /\ ~ctxDone
    /\ opc # "returned"
    /\ opc = "pool" => mpc = "returned"
    /\ ctxDone' = TRUE
    /\ UNCHANGED <<chunks, maxConcurrent, dpc, di, wg, semaphore, resultChanClosed,
                   wpc, processedContent, processErr, called, reported, overtaken,
                   cancelSeenAt, results, processedCounter, errorCount, mpc,
                   finalResults, panicked, speakerRoleNameMap>>
    /\ UNCHANGED <<chunkerVars, auxVars>>

\* lines 159-162: an error of the analysis ends the call
AbortsOnErrorAlways(failed) == failed
AbortsOnError(failed) == FALSE

\* lines 163 and 189: ctx.Err() != nil
CtxErrIgnored(done) == FALSE
CtxErr(done) == done

\* lines 158-162: the analysis call; after an error the raw text is empty
TrAnalyze ==
    /\ ~panicked
    /\ opc = "start"
    /\ \E r \in AnalysisReplies :
          /\ analysisFailed' = r.err
          /\ speakerAnalysisRaw' = IF r.err THEN <<>> ELSE r.text
          /\ opc' = IF AbortsOnError(r.err) THEN "returned" ELSE "analyzed"
    /\ UNCHANGED <<trText, cfg, trResult>>
    /\ UNCHANGED <<poolVars, chunkerVars, sentenceVars, parseVars, combineVars, docVars>>

\* lines 163-169: return on a cancelled context, else call ParseSpeakerAnalysis
TrParse ==
    /\ ~panicked
    /\ opc = "analyzed"
    /\ IF CtxErr(ctxDone)
       THEN /\ opc' = "returned"
            /\ UNCHANGED parseVars
       ELSE /\ opc' = "parse"
            /\ analysis' = speakerAnalysisRaw
            /\ plines' = <<>>
            /\ pidx' = 1
            /\ foundListStart' = FALSE
            /\ mapping' = <<>>
            /\ ppc' = "start"
            /\ UNCHANGED pentries
    /\ UNCHANGED <<trText, cfg, speakerAnalysisRaw, analysisFailed, trResult>>
    /\ UNCHANGED <<poolVars, chunkerVars, sentenceVars, combineVars, docVars>>

\* lines 169-173: the map is the parser's result; call ChunkTextBySpace
TrChunk ==
    /\ ~panicked
    /\ opc = "parse"
    /\ ppc = "done"
    /\ speakerRoleNameMap' = mapping
    /\ srcWords' = Fields(trText)
    /\ content' = trText
    /\ chunkSize' = cfg.ChunkSize
    /\ overlap' = cfg.ChunkOverlap
    /\ words' = <<>>
    /\ cpc' = "start"
    /\ ci' = 0
    /\ cchunks' = <<>>
    /\ cerr' = FALSE
    /\ opc' = "chunk"
    /\ UNCHANGED <<chunks, maxConcurrent, ctxDone, dpc, di, wg, semaphore,
                   resultChanClosed, wpc, processedContent, processErr, called,
                   reported, overtaken, cancelSeenAt, results, processedCounter,
                   errorCount, mpc, finalResults, panicked>>
    /\ UNCHANGED <<trText, cfg, speakerAnalysisRaw, analysisFailed, trResult>>
    /\ UNCHANGED <<sentenceVars, parseVars, combineVars, docVars>>

\* lines 174-186: return on an error or on no chunk, else call ProcessChunks
\* with the chunks, the configuration and the map
TrProcess ==
    /\ ~panicked
    /\ opc = "chunk"
    /\ cpc = "done"
    /\ IF cerr \/ Len(cchunks) = 0
       THEN /\ opc' = "returned"
            /\ UNCHANGED <<chunks, maxConcurrent, dpc, di, wg, semaphore,
                           resultChanClosed, wpc, processedContent, processErr, called,
                           reported, overtaken, cancelSeenAt, results,
                           processedCounter, errorCount, mpc, finalResults>>
       ELSE /\ opc' = "pool"
            /\ chunks' = [i \in 0..(Len(cchunks) - 1) |-> cchunks[i + 1]]
            /\ maxConcurrent' = cfg.MaxConcurrent
            /\ dpc' = "check"
            /\ di' = 0
            /\ wg' = 0
            /\ semaphore' = 0
            /\ resultChanClosed' = FALSE
            /\ wpc' = [i \in 0..(Len(cchunks) - 1) |-> "idle"]
            /\ processedContent' = [i \in 0..(Len(cchunks) - 1) |-> <<>>]
            /\ processErr' = [i \in 0..(Len(cchunks) - 1) |-> FALSE]
            /\ called' = [i \in 0..(Len(cchunks) - 1) |-> FALSE]
            /\ reported' = [i \in 0..(Len(cchunks) - 1) |-> 0]
            /\ overtaken' = FALSE
            /\ cancelSeenAt' = -1
            /\ results' = [i \in 0..(Len(cchunks) - 1) |-> <<>>]
            /\ processedCounter' = 0
            /\ errorCount' = 0
            /\ mpc' = "collect"
            /\ finalResults' = <<>>
    /\ UNCHANGED <<ctxDone, panicked, speakerRoleNameMap>>
    /\ UNCHANGED <<trText, cfg, speakerAnalysisRaw, analysisFailed, trResult>>
    /\ UNCHANGED <<chunkerVars, sentenceVars, parseVars, combineVars, docVars>>

\* lines 189-201: return on a cancelled context or on no result, else call
\* CombineTranscriptChunks
TrCombine ==
    /\ ~panicked
    /\ opc = "pool"
    /\ mpc = "returned"
    /\ IF CtxErr(ctxDone) \/ Len(finalResults) = 0
       THEN /\ opc' = "returned"
            /\ UNCHANGED combineVars
       ELSE /\ opc' = "combine"
            /\ tchunks' = finalResults
            /\ tlines' = <<>>
            /\ tidx' = 1
            /\ currentSpeaker' = <<>>
            /\ currentSpeech' = <<>>
            /\ finalLines' = <<>>
            /\ finalOutput' = <<>>
            /\ tpc' = "start"
            /\ UNCHANGED tentries
    /\ UNCHANGED <<trText, cfg, speakerAnalysisRaw, analysisFailed, trResult>>
    /\ UNCHANGED <<poolVars, chunkerVars, sentenceVars, parseVars, docVars>>

\* lines 201-205
TrReturn ==
    /\ ~panicked
    /\ opc = "combine"
    /\ tpc = "done"
    /\ trResult' = finalOutput
    /\ opc' = "returned"
    /\ UNCHANGED <<trText, cfg, speakerAnalysisRaw, analysisFailed>>
    /\ UNCHANGED <<poolVars, chunkerVars, sentenceVars, parseVars, combineVars, docVars>>

TranscriptNext ==
    \/ TrCancel
    \/ TrAnalyze
    \/ TrParse
    \/ ParseNext
    \/ TrChunk
    \/ ChunkerNext
    \/ TrProcess
    \/ Next
    \/ TrCombine
    \/ CombineNext
    \/ TrReturn

\* ----------------------------------------------- main.combineResults
\* The results given to combineResults: blank ones (empty or white space
\* only) and ones with text, some with white space around it.
ResultPool ==
    {[text |-> <<>>, blank |-> TRUE],
     [text |-> <<" ", "\n">>, blank |-> TRUE],
     [text |-> <<"a">>, blank |-> FALSE],
     [text |-> <<" ", "b", "\n">>, blank |-> FALSE],
     [text |-> <<"c", " ", "d">>, blank |-> FALSE]}

\* combineResults is not running
DocIdle ==
    /\ docEntries = <<>>
    /\ docResults = <<>>
    /\ docOutput = <<>>
    /\ docpc = "done"

DocInit ==
    /\ docEntries \in SeqsUpTo(ResultPool, MaxResults)
    /\ docResults = [i \in 1..Len(docEntries) |-> docEntries[i].text]
    /\ docOutput = <<>>
    /\ docpc = "start"

\* line 248: the result is kept
IsValidResultAlways(res) == TRUE
IsValidResult(res) == TrimSpace(res) # <<>>

\* lines 245-251: validResults
RECURSIVE ValidFrom(_, _)
ValidFrom(res, i) ==
    IF i > Len(res) THEN <<>>
    ELSE (IF IsValidResult(res[i]) THEN <<res[i]>> ELSE <<>>) \o ValidFrom(res, i + 1)

\* lines 243-255
combineResults(res) == Join(ValidFrom(res, 1), <<"\n", "\n">>)

CombineResultsCall ==
    /\ docpc = "start"
    /\ docOutput' = combineResults(docResults)
    /\ docpc' = "done"
    /\ UNCHANGED <<docEntries, docResults>>
    /\ UNCHANGED <<poolVars, chunkerVars, sentenceVars, parseVars, combineVars, orchVars>>

DocNext == CombineResultsCall

\* ------------------------------------------------------ specifications
\* One call of one operation at a time; what is not called stays idle.
InitChunker == ChunkerInit /\ PoolIdle /\ SentenceIdle /\ ParseIdle /\ CombineIdle
    /\ OrchIdle /\ DocIdle

SpecChunker == InitChunker /\ [][ChunkerNext]_vars

\* a window loop that can take its next turn takes it
FairSpecChunker == SpecChunker /\ WF_vars(ChunkLoop)

InitChunkText == ChunkTextInit /\ PoolIdle /\ ChunkerIdle /\ ParseIdle /\ CombineIdle
    /\ OrchIdle /\ DocIdle

SpecChunkText == InitChunkText /\ [][ChunkTextNext]_vars

InitParse == ParseInit /\ PoolIdle /\ ChunkerIdle /\ SentenceIdle /\ CombineIdle
    /\ OrchIdle /\ DocIdle

SpecParse == InitParse /\ [][ParseNext]_vars

InitCombine ==
    CombineInit /\ PoolIdle /\ ChunkerIdle /\ SentenceIdle /\ ParseIdle /\ OrchIdle /\ DocIdle

SpecCombine == InitCombine /\ [][CombineNext]_vars

InitTranscript ==
    OrchInit /\ PoolIdle /\ ChunkerIdle /\ SentenceIdle /\ ParseIdle /\ CombineIdle /\ DocIdle

SpecTranscript == InitTranscript /\ [][TranscriptNext]_vars

InitDoc ==
    DocInit /\ PoolIdle /\ ChunkerIdle /\ SentenceIdle /\ ParseIdle /\ CombineIdle /\ OrchIdle

SpecDoc == InitDoc /\ [][DocNext]_vars

Init == PoolInit /\ ChunkerIdle /\ SentenceIdle /\ ParseIdle /\ CombineIdle
    /\ OrchIdle /\ DocIdle

Spec == Init /\ [][Next]_vars

\* every goroutine that can still run does; the context need not be cancelled
FairSpec ==
    /\ Spec
    /\ WF_vars(DispatchCheck)
    /\ WF_vars(DispatchAcquire)
    /\ WF_vars(DispatchCancelled)
    /\ WF_vars(DispatchWait)
    /\ WF_vars(MainReturn)
    /\ \A i \in 0..(MaxChunks - 1) :
          /\ WF_vars(i \in Idx /\ WorkerStart(i))
          /\ WF_vars(i \in Idx /\ \E r \in Replies(chunks[i]) : WorkerReply(i, r))
          /\ WF_vars(i \in Idx /\ CollectorReceive(i))
          /\ WF_vars(i \in Idx /\ WorkerSendOnClosed(i))
          /\ WF_vars(i \in Idx /\ WorkerRelease(i))
          /\ WF_vars(i \in Idx /\ WorkerDone(i))

\* ProcessChunks under a context that is never cancelled: the steps of Next
\* that need no cancellation
NextNoCancel ==
    \/ DispatchCheck
    \/ DispatchAcquire
    \/ DispatchWait
    \/ \E i \in Idx : WorkerStart(i)
    \/ \E i \in Idx : \E r \in Replies(chunks[i]) : WorkerReply(i, r)
    \/ \E i \in Idx : CollectorReceive(i)
    \/ \E i \in Idx : WorkerRelease(i)
    \/ \E i \in Idx : WorkerDone(i)
    \/ MainReturn

\* some goroutine that can run does, and the API calls return: the batch
\* never stops while a step is possible (weaker than fairness to every
\* goroutine, and enough here since no step can be repeated for ever)
FairSpecNoCancel ==
    /\ Init
    /\ [][NextNoCancel]_vars
    /\ WF_vars(NextNoCancel)

\* ------------------------------------------- properties of ProcessChunks
Dispatched(i) == wpc[i] # "idle"
HoldsSlot(i) == wpc[i] \in {"start", "calling", "sending", "sent", "panic"}
InFlight == Cardinality({i \in Idx : HoldsSlot(i)})
Calling == Cardinality({i \in Idx : wpc[i] = "calling"})
Returned == mpc = "returned"
\* the segment's transform succeeded with a content that is not blank
Survives(i) == ~processErr[i] /\ wpc[i] \notin {"idle", "start", "calling"}
               /\ TrimSpace(processedContent[i]) # <<>>
Failed(i) == processErr[i]

\* the contents f(processedContent[i]) of the segments i..n-1 that did not fail
RECURSIVE SuccessfulFrom(_, _, _)
SuccessfulFrom(f(_), i, n) ==
    IF i >= n THEN <<>>
    ELSE (IF Failed(i) THEN <<>> ELSE <<f(processedContent[i])>>)
         \o SuccessfulFrom(f, i + 1, n)

Untrimmed(t) == t

\* C1: without cancellation, the returned list is ordered by segment position:
\* when segments i < j both survive, the content of i stands before the
\* content of j, whichever report arrived first.
C1_OrderedByPosition ==
    (Returned /\ ~ctxDone) =>
        \A i, j \in Idx :
            (i < j /\ Survives(i) /\ Survives(j)) =>
                \E p, q \in DOMAIN finalResults :
                    /\ p < q
                    /\ finalResults[p] = TrimSpace(processedContent[i])
                    /\ finalResults[q] = TrimSpace(processedContent[j])

\* every segment survives and some report arrived after that of a later segment
C1_Witness ==
    /\ Returned /\ ~ctxDone
    /\ N >= 2
    /\ \A i \in Idx : Survives(i)
    /\ overtaken

\* C2: the number of workers holding a slot, hence of transform calls in
\* flight, never exceeds the concurrency limit.
C2_BoundedConcurrency ==
    /\ InFlight <= maxConcurrent
    /\ Calling <= maxConcurrent
    /\ semaphore <= maxConcurrent

\* more segments than slots, every slot in a transform call, the dispatcher waiting
C2_Witness ==
    /\ N > maxConcurrent
    /\ Calling = maxConcurrent
    /\ dpc = "select"

\* C3: when ProcessChunks returns, the collector has received exactly one
\* report for every dispatched segment.
C3_OneReportPerDispatched ==
    Returned => \A i \in Idx : Dispatched(i) => reported[i] = 1

\* C4 as stated: with some transforms failing and the others succeeding with
\* non-blank content, the returned list is exactly the successful contents
\* in position order.
C4_ExactContents ==
    (Returned /\ ~ctxDone /\ \A i \in Idx : Failed(i) \/ Survives(i)) =>
        finalResults = SuccessfulFrom(Untrimmed, 0, N)

\* C4 amended: the returned list is the successful contents, each trimmed of
\* leading and trailing white space, in position order, nothing standing in
\* for a failed segment.
C4_TrimmedContents ==
    (Returned /\ ~ctxDone /\ \A i \in Idx : Failed(i) \/ Survives(i)) =>
        finalResults = SuccessfulFrom(TrimSpace, 0, N)

\* three segments, the middle one failed, the outer two returned
C4_Witness ==
    /\ Returned /\ ~ctxDone
    /\ N = 3
    /\ Survives(0) /\ Failed(1) /\ Survives(2)
    /\ Len(finalResults) = 2

\* C5: once the context is cancelled, ProcessChunks eventually returns.
C5_CancelledReturns == ctxDone ~> Returned

\* C6: when ProcessChunks returns no semaphore slot is held.
C6_NoSlotHeldAtReturn == Returned => (semaphore = 0 /\ InFlight = 0)

\* C7: no worker is started, and no transform called, for the segment the
\* dispatcher considers with the context already cancelled, nor for a later one.
C7_NoDispatchAfterCancel ==
    cancelSeenAt # -1 =>
        \A j \in Idx : j >= cancelSeenAt => (wpc[j] = "idle" /\ ~called[j])

\* the cancellation was seen at the second segment or later, and the call returned
C7_Witness ==
    /\ Returned
    /\ cancelSeenAt >= 1
    /\ called[0]

NWords == Len(srcWords)
ValidWindow == chunkSize >= 1 /\ 0 <= overlap /\ overlap < chunkSize

\* the words at positions from .. to-1 (0-based) of the text, joined by spaces
WordsBetween(from, to) == Join(SubSeq(srcWords, from + 1, to), <<" ">>)

\* C9: with 0 <= overlap < chunkSize and more than chunkSize words, chunk w
\* is the words at positions w*step .. min(w*step + chunkSize, n) - 1, and
\* the last chunk ends at the final word.
C9_WindowContents ==
    (cpc = "done" /\ ValidWindow /\ NWords > chunkSize) =>
        LET step == chunkSize - overlap
            last == Len(cchunks) - 1
        IN /\ Len(cchunks) >= 1
           /\ \A w \in 0..last :
                 cchunks[w + 1] =
                     WordsBetween(w * step, Min(w * step + chunkSize, NWords))
           /\ last * step + chunkSize >= NWords

\* three windows or more with an overlap, the last one clamped to the end
C9_Witness ==
    /\ cpc = "done" /\ ValidWindow /\ NWords > chunkSize
    /\ overlap >= 1
    /\ Len(cchunks) >= 3
    /\ (Len(cchunks) - 1) * (chunkSize - overlap) + chunkSize > NWords

\* C10: with overlap >= chunkSize and more than chunkSize words, the call
\* returns an error and no chunks; it neither loops nor panics.
C10_FailsFast ==
    (chunkSize >= 1 /\ overlap >= chunkSize /\ NWords > chunkSize) =>
        /\ cpc # "panic"
        /\ cchunks = <<>>
        /\ cpc = "done" => cerr

\* C11: a call with chunkSize <= 0 returns an error (and does not panic).
C11_ErrorOnBadSize ==
    chunkSize <= 0 => (cpc # "panic" /\ (cpc = "done" => cerr))

\* a run of whole consecutive sentences, written with one space between them
IsRunOfSentences(c) ==
    \E i, j \in 1..Len(sentences) :
        i <= j /\ c = Join(SubSeq(sentences, i, j), <<" ">>)

\* C12: with a target of one word or more, every chunk of the sentence packing
\* is exactly one sentence or has at most the target number of words, and the
\* chunks are the sentences in order, none of them split.
C12_SentencesWhole ==
    (spc = "done" /\ sSize >= 1) =>
        /\ \A c \in 1..Len(schunks) :
              \/ \E i \in 1..Len(sentences) : schunks[c] = sentences[i]
              \/ WordCount(schunks[c]) <= sSize
        /\ \A c \in 1..Len(schunks) : IsRunOfSentences(schunks[c])
        /\ Join(schunks, <<" ">>) = Join(sentences, <<" ">>)

\* a sentence longer than the target stands alone, and two short ones share a chunk
C12_Witness ==
    /\ spc = "done"
    /\ sSize = 2
    /\ Len(sentences) = 3
    /\ Len(schunks) = 2
    /\ WordCount(schunks[1]) = 3
    /\ schunks[2] = Join(SubSeq(sentences, 2, 3), <<" ">>)

\* C13: the chunks of ChunkText, taken in order, are the sentences of the
\* input text, each exactly once and in their original order.
C13_EverySentenceOnce ==
    spc = "done" => Join(schunks, <<" ">>) = Join(srcSentences, <<" ">>)

\* C14: the placeholder of an abbreviation's period is restored before the
\* chunks are returned: no returned chunk contains it.
C14_NoSentinelReturned ==
    spc = "done" =>
        \A c \in 1..Len(schunks) : \A p \in 1..Len(schunks[c]) : schunks[c][p] # Sentinel

\* the list lines the map is built from
ValidEntry(e) ==
    e.list /\ e.role # <<>> /\ e.name # <<>> /\ e.role # TotalSpeakers

\* each role with the name of the first valid line that carries it
FirstWins ==
    LET valid == {i \in 1..Len(pentries) : ValidEntry(pentries[i])}
        first(r) == CHOOSE i \in valid :
                        /\ pentries[i].role = r
                        /\ \A j \in valid : pentries[j].role = r => i <= j
    IN [r \in {pentries[i].role : i \in valid} |-> pentries[first(r)].name]

\* C15: ParseSpeakerAnalysis returns the map that gives each role the name of
\* the first list line "- role: name[, ...]" with that role, among the lines
\* with a role, a name and a role other than "Total Speakers"; every other
\* line adds nothing, and a text without such lines gives the empty map.
C15_FirstRoleWins == ppc = "done" => mapping = FirstWins

\* a role met twice with different names, beside a "Total Speakers" line
C15_Witness ==
    /\ ppc = "done"
    /\ Len(pentries) = 3
    /\ pentries[1].role = TotalSpeakers /\ pentries[1].list
    /\ pentries[2].role = pentries[3].role
    /\ pentries[2].name # pentries[3].name
    /\ ValidEntry(pentries[2]) /\ ValidEntry(pentries[3])
    /\ DOMAIN mapping = {pentries[2].role}
    /\ mapping[pentries[2].role] = pentries[2].name

\* --------------------------------- properties of CombineTranscriptChunks
\* the lines written with a speaker, and those of them written with speech
IsSpeakerEntry(e) == e.kind = "speaker"
IsSpoken(e) == e.kind = "speaker" /\ e.speech # <<>>
SpeakerEntries == SelectSeq(tentries, IsSpeakerEntry)
Spoken == SelectSeq(tentries, IsSpoken)

\* the positions of q where a maximal run of lines of one speaker starts
RunStarts(q) == {i \in 1..Len(q) : i = 1 \/ q[i].speaker # q[i - 1].speaker}

\* the last position of the run that starts at i
RunEnd(q, i) ==
    CHOOSE j \in i..Len(q) :
        /\ \A m \in i..j : q[m].speaker = q[i].speaker
        /\ j = Len(q) \/ q[j + 1].speaker # q[i].speaker

\* the start of the k-th run of q
KthStart(q, k) ==
    CHOOSE i \in RunStarts(q) : Cardinality({j \in RunStarts(q) : j <= i}) = k

\* the block of the run that starts at i: the speaker in bold, then the
\* utterances of the run in order with one space between them
RunBlock(q, i) ==
    <<"*", "*">> \o q[i].speaker \o <<"*", "*", ":", " ">>
        \o Join([m \in 1..(RunEnd(q, i) - i + 1) |-> q[i + m - 1].speech], <<" ">>)

\* C17: consecutive lines of one speaker are merged into one block, their
\* utterances in order with single spaces between them, also when the lines
\* come from different chunks.
C17_MergedBlocks ==
    tpc = "done" =>
        finalLines = [k \in 1..Cardinality(RunStarts(Spoken)) |->
                         RunBlock(Spoken, KthStart(Spoken, k))]

\* the two Host lines in different chunks, then the Guest line
C17_Witness ==
    /\ tpc = "done"
    /\ Len(tchunks) = 2
    /\ tchunks[1] = <<"H", "o", "s", "t", ":", " ", "H", "i", " ", "t", "h", "e", "r", "e", ".">>
    /\ Len(tentries) = 3
    /\ tentries[2].line = <<"H", "o", "s", "t", ":", " ", "H", "o", "w", " ", "a", "r", "e", " ", "y", "o", "u", "?">>
    /\ tentries[3].line = <<"G", "u", "e", "s", "t", ":", " ", "G", "o", "o", "d", ".">>
    /\ finalLines = <<<<"*", "*", "H", "o", "s", "t", "*", "*", ":", " ", "H", "i", " ", "t", "h", "e", "r", "e", ".", " ", "H", "o", "w", " ", "a", "r", "e", " ", "y", "o", "u", "?">>,
                      <<"*", "*", "G", "u", "e", "s", "t", "*", "*", ":", " ", "G", "o", "o", "d", ".">>>>

\* the speech of a block: what follows the bold speaker, the colon and the space
BlockSpeech(b) == Drop(b, Index(b, ":") + 1)

\* the utterances of the output are those of the input, in their order
UtterancesInOrder ==
    Join([k \in 1..Len(finalLines) |-> BlockSpeech(finalLines[k])], <<" ">>)
        = Join([i \in 1..Len(Spoken) |-> Spoken[i].speech], <<" ">>)

\* C18 as stated: as many blocks as there are maximal runs of consecutive
\* lines of one speaker, and the utterances in their order.
C18_BlocksAreRuns ==
    tpc = "done" =>
        /\ Len(finalLines) = Cardinality(RunStarts(SpeakerEntries))
        /\ UtterancesInOrder

\* C18: as many blocks as there are maximal runs of consecutive lines of one
\* speaker among the lines with a speaker and a non-empty utterance, and the
\* utterances in their order.
C18_BlocksAreSpokenRuns ==
    tpc = "done" =>
        /\ Len(finalLines) = Cardinality(RunStarts(Spoken))
        /\ UtterancesInOrder

\* three spoken lines in two runs
C18_Witness ==
    /\ tpc = "done"
    /\ Len(Spoken) = 3
    /\ Cardinality(RunStarts(Spoken)) = 2
    /\ Len(finalLines) = 2

\* sub is a part of t
Contains(t, sub) ==
    \E p \in 1..(Len(t) - Len(sub) + 1) : SubSeq(t, p, p + Len(sub) - 1) = sub

\* C19: the text of a line without a speaker is in no block.
C19_OrphanDropped ==
    tpc = "done" =>
        \A i \in 1..Len(tentries) :
            tentries[i].kind = "orphan" =>
                \A k \in 1..Len(finalLines) :
                    ~Contains(finalLines[k], TrimSpace(tentries[i].line))

\* a line without a speaker after a spoken line, with a block emitted
C19_Witness ==
    /\ tpc = "done"
    /\ Len(tentries) >= 2
    /\ IsSpoken(tentries[1])
    /\ tentries[2].kind = "orphan"
    /\ Len(finalLines) = 1

\* -------------------------------------- properties of ProcessTranscript
\* ProcessChunks was called with every chunk of the text, and every one of
\* them was handed to a worker
AllSegmentsDispatched ==
    /\ Len(cchunks) >= 1
    /\ DOMAIN chunks = 0..(Len(cchunks) - 1)
    /\ \A i \in Idx : chunks[i] = cchunks[i + 1] /\ Dispatched(i)

\* C16: when the analysis call fails and the context is never cancelled,
\* ProcessTranscript goes on with an empty speaker map: the text is segmented
\* and every segment is dispatched to the pool.
C16_GoesOnAfterAnalysisError ==
    (analysisFailed /\ ~ctxDone /\ opc = "returned") =>
        /\ DOMAIN speakerRoleNameMap = {}
        /\ AllSegmentsDispatched

\* a failed analysis, no cancellation, two segments
C16_Witness ==
    /\ analysisFailed
    /\ ~ctxDone
    /\ opc = "returned"
    /\ N = 2
    /\ \A i \in Idx : called[i]

\* a step taken after the map was built leaves it as it is
MapKept ==
    opc \in {"chunk", "pool", "combine", "returned"} =>
        speakerRoleNameMap' = speakerRoleNameMap

\* C20: when a segment is dispatched, the analysis call and the parsing are
\* over and the map is the parser's result; once it is built, no step changes
\* it.
C20_MapBuiltThenFrozen ==
    /\ []((\E i \in Idx : Dispatched(i)) =>
              (opc \in {"pool", "combine", "returned"} /\ ppc = "done"
               /\ speakerRoleNameMap = mapping))
    /\ [][MapKept]_vars

\* a worker's call has returned, with a map of one entry
C20_Witness ==
    /\ opc = "pool"
    /\ DOMAIN speakerRoleNameMap # {}
    /\ \E i \in Idx : called[i] /\ wpc[i] = "sending"

\* ----------------------------------------- properties of combineResults
\* the results that were written with text, in their order
TextEntries == SelectSeq(docEntries, LAMBDA e : ~e.blank)

\* C21: combineResults returns the results that are not blank, in their
\* order, with "\n\n" between two of them and nothing before the first or
\* after the last; a blank result adds neither text nor separator.
C21_JoinedNonBlank ==
    docpc = "done" =>
        docOutput = Join([i \in 1..Len(TextEntries) |-> TextEntries[i].text], <<"\n", "\n">>)

\* a blank result between two results with text
C21_Witness ==
    /\ docpc = "done"
    /\ Len(docEntries) = 3
    /\ ~docEntries[1].blank /\ docEntries[2].blank /\ ~docEntries[3].blank
    /\ docOutput = docEntries[1].text \o <<"\n", "\n">> \o docEntries[3].text

\* ------------------------------ further properties of ChunkTextBySpace
\* C22: with chunkSize >= 1 and 0 <= overlap < chunkSize the window loop,
\* once entered, ends and the call returns; no window starts below word 0 or
\* after the last word, or ends after it (words[i:end] never panics).
C22_TerminatesInRange ==
    /\ (ValidWindow /\ cpc = "loop") ~> (cpc = "done")
    /\ [](ValidWindow =>
            /\ cpc # "panic"
            /\ cpc = "loop" =>
                  /\ 0 <= ci /\ ci < Len(words)
                  /\ SliceOk(ci, WindowEnd(ci, chunkSize, Len(words)), Len(words)))

\* the call has returned after a last window that was clamped to the end
C22_Witness ==
    /\ cpc = "done"
    /\ ValidWindow
    /\ Len(cchunks) >= 2
    /\ ci + chunkSize > Len(words)

\* ------------------------------- further properties of ProcessChunks
\* the worker of segment i ends its call, or skips it, in this step
EndsCall(i) == wpc[i] \in {"start", "calling"} /\ wpc'[i] = "sending"

\* a worker that finds the context cancelled, before its call or when the
\* call returns, reports a failure with no content
CancelledReportsFailure ==
    \A i \in Idx : (EndsCall(i) /\ ctxDone) => (processErr'[i] /\ processedContent'[i] = <<>>)

\* C23: a report marked failed carries no content, leaves the segment's
\* result slot empty and puts nothing of the segment into the returned
\* list; a worker that finds the context cancelled before its call or when
\* the call returns marks its report failed.
C23_FailedContributesNothing ==
    /\ [](\A i \in Idx :
            Failed(i) =>
                /\ processedContent[i] = <<>>
                /\ results[i] = <<>>
                /\ \A k \in 1..Len(finalResults) : ~Contains(finalResults[k], chunks[i]))
    /\ [][CancelledReportsFailure]_vars

\* returned with a result, the call of another segment discarded as failed
C23_Witness ==
    /\ Returned
    /\ Len(finalResults) >= 1
    /\ \E i \in Idx : Failed(i) /\ called[i] /\ reported[i] = 1

\* ------------------------ further properties of CombineTranscriptChunks
\* a line that is not blank and has no speaker, or has a speaker and no speech
SkippedLine(line) ==
    LET t == TrimSpace(line)
    IN /\ t # <<>>
       /\ ~IsSpeakerLine(t) \/ TrimSpace(Drop(t, Index(t, ":"))) = <<>>

\* the turn of the loop over a skipped line changes neither the speaker nor
\* the speech nor the blocks
SkipKeepsState ==
    (tpc = "loop" /\ tidx <= Len(tlines) /\ tidx' = tidx + 1 /\ SkippedLine(tlines[tidx])) =>
        /\ currentSpeaker' = currentSpeaker
        /\ currentSpeech' = currentSpeech
        /\ finalLines' = finalLines

\* the lines i < j are spoken by one speaker and every line between them is skipped
OnlySkippedBetween(i, j) ==
    /\ IsSpoken(tentries[i]) /\ IsSpoken(tentries[j])
    /\ tentries[i].speaker = tentries[j].speaker
    /\ \A m \in (i + 1)..(j - 1) : ~IsSpoken(tentries[m])

\* C24: a skipped line (no speaker, or a speaker with an empty utterance)
\* leaves the current speaker and the speech as they are and flushes
\* nothing, so two lines of one speaker with only skipped lines between them
\* are in one block.
C24_SkippedLineKeepsState ==
    /\ [][SkipKeepsState]_vars
    /\ [](tpc = "done" =>
            \A i, j \in 1..Len(tentries) :
                (i < j /\ OnlySkippedBetween(i, j)) =>
                    \E k \in 1..Len(finalLines) :
                        Contains(finalLines[k],
                                 tentries[i].speech \o <<" ">> \o tentries[j].speech))

\* two Host lines around a Guest line with no utterance: one block
C24_Witness ==
    /\ tpc = "done"
    /\ Len(tentries) = 3
    /\ OnlySkippedBetween(1, 3)
    /\ tentries[2].kind = "speaker" /\ tentries[2].speaker # tentries[1].speaker
    /\ Len(finalLines) = 1

\* C25: resultChan is closed only when every dispatched worker has delivered
\* its report, and no worker sends on the closed channel.
C25_NoSendOnClosed ==
    /\ resultChanClosed => \A i \in Idx : Dispatched(i) => reported[i] = 1
    /\ \A i \in Idx : wpc[i] # "panic"
    /\ ~panicked

\* a segment whose transform was called is not called again
NoSecondCall ==
    \A i \in Idx : (called[i] /\ wpc[i] # "calling") => wpc'[i] # "calling"

\* C26: with a limit of one or more, no cancellation and every call
\* returning, ProcessChunks returns for every number of segments and every
\* interleaving; by then the transform of every segment was called, once,
\* every worker has reported and released its slot.
C26_NoDeadlock ==
    /\ <>Returned
    /\ [](~ctxDone /\ ~panicked)
    /\ [](Returned =>
            /\ \A i \in Idx : called[i] /\ reported[i] = 1 /\ wpc[i] = "done"
            /\ semaphore = 0 /\ wg = 0)
    /\ [][NoSecondCall]_vars

\* returned without cancellation, with more segments than slots
C26_Witness ==
    /\ Returned
    /\ ~ctxDone
    /\ N > maxConcurrent
    /\ \A i \in Idx : called[i] /\ reported[i] = 1

\* C27: for every text and valid parameters every segment ChunkTextBySpace
\* returns has at least one word, and no segment without a word is handed
\* to a worker of ProcessChunks.
C27_NoEmptySegment ==
    /\ (cpc = "done" /\ ValidWindow /\ ~cerr) =>
          \A w \in 1..Len(cchunks) : Len(Fields(cchunks[w])) >= 1
    /\ \A i \in Idx : Dispatched(i) => Len(Fields(chunks[i])) >= 1

\* the words of window w (the words of a text are pairwise different)
WindowWords(w) ==
    LET f == Fields(cchunks[w]) IN {f[k] : k \in 1..Len(f)}

\* C28: with 0 <= overlap < chunkSize every window after the first has a
\* word that the window before it has not, and every word of the text is
\* in some window.
C28_WindowsAdvanceAndCover ==
    (cpc = "done" /\ ValidWindow /\ ~cerr) =>
        /\ \A w \in 2..Len(cchunks) : WindowWords(w) \ WindowWords(w - 1) # {}
        /\ \A p \in 1..NWords : \E w \in 1..Len(cchunks) : srcWords[p] \in WindowWords(w)

\* three or more overlapping windows, the last one shorter than chunkSize
C28_Witness ==
    /\ cpc = "done"
    /\ ValidWindow
    /\ overlap >= 1
    /\ Len(cchunks) >= 3
    /\ Cardinality(WindowWords(Len(cchunks))) < chunkSize
    /\ \A w \in 2..Len(cchunks) : WindowWords(w) \ WindowWords(w - 1) # {}

\* ProcessTranscript stands at the check after the analysis, or at the check
\* after ProcessChunks has returned
AtCtxCheck ==
    \/ opc = "analyzed"
    \/ opc = "pool" /\ mpc = "returned"

\* a check made with the context cancelled ends the call with the empty
\* string and leaves CombineTranscriptChunks uncalled
CancelledCheckReturnsEmpty ==
    (ctxDone /\ AtCtxCheck /\ opc' # opc) =>
        /\ opc' = "returned"
        /\ trResult' = <<>>
        /\ tchunks' = tchunks
        /\ tpc' = tpc
        /\ finalOutput' = finalOutput

\* C29: when the context is cancelled by the check after the analysis or by
\* the check after ProcessChunks, ProcessTranscript returns the empty string
\* without calling CombineTranscriptChunks, whatever results were collected;
\* what it returns otherwise is the whole output of CombineTranscriptChunks.
C29_NoPartialTranscript ==
    /\ [][CancelledCheckReturnsEmpty]_vars
    /\ [](trResult # <<>> => (tpc = "done" /\ trResult = finalOutput))

\* returned empty after a cancellation, with results collected and
\* CombineTranscriptChunks never called
C29_Witness ==
    /\ opc = "returned"
    /\ ctxDone
    /\ mpc = "returned"
    /\ Len(finalResults) >= 1
    /\ trResult = <<>>
    /\ tchunks = <<>>

\* the lines of the input, in order
InputLines == [i \in 1..Len(tentries) |-> tentries[i].line]

\* the lines of the input passed as a single segment
SingleSegment == <<Join(InputLines, <<"\n">>)>>

\* C30: however the lines are cut into segments, and whatever line break
\* is used inside a segment, the string CombineTranscriptChunks returns is
\* the one it returns for the same lines passed as a single segment.
C30_SegmentationIndependent ==
    tpc = "done" => finalOutput = CombineTranscriptChunks(SingleSegment)

\* three lines in three segments, two of them merged across a segment
\* boundary, with a skipped line between; the single segment gives the same
C30_Witness ==
    /\ tpc = "done"
    /\ Len(tentries) = 3
    /\ Len(tchunks) = 3
    /\ Len(finalLines) = 1
    /\ tentries[2].kind # "speaker"
    /\ finalOutput # <<>>
    /\ finalOutput = CombineTranscriptChunks(SingleSegment)
====
